---- MODULE Spec2Model ----
(***************************************************************************)
(* decipher-bench: the evaluation dispatcher and its three strategies      *)
(* (evaluators/core.py), the trial runner and batch loops (benchmark.py),  *)
(* the data models (models.py) and the aggregation of generate_html_report *)
(* (reporters.py).                                                         *)
(*                                                                         *)
(* Representation.  A Python str is a sequence of one-character strings    *)
(* over Alphabet.  A score is an integer number of 1/ScoreSteps units, so  *)
(* 1.0 is ScoreSteps and 0.0 is 0.  An Optional value is a record with a   *)
(* "present" field.  The two external scorers (rouge_score, bert_score)    *)
(* and the text-generation backend are inputs drawn from bounded sets.     *)
(* A float quotient is kept as an exact fraction: on the score grid the    *)
(* sums are exact, so the order of a summation does not change its value.  *)
(*                                                                         *)
(* Three specifications share the module: Spec runs a batch (run_all),     *)
(* SpecEval calls evaluate_response on one response and one evaluation,    *)
(* SpecAgg calls generate_html_report on one list of results.              *)
(***************************************************************************)
EXTENDS Integers, Sequences, FiniteSets, TLC

\* ------------------------------------------------------------- bounds
MaxLen == 3        \* longest candidate text; references and patterns are one
                   \* character shorter, variations two (ShortLen, VarLen)
MaxVars == 1       \* longest acceptable_variations list
ScoreSteps == 2    \* score grid: k/ScoreSteps for k in 0..ScoreSteps
MaxTests == 2      \* most test files of one batch
MaxResults == 3    \* longest result list handed to generate_html_report

\* ------------------------------------------------------------- strings
Alphabet == {" ", "7"}

Strs(n) == UNION {[1..k -> Alphabet] : k \in 0..n}

ShortLen == IF MaxLen > 1 THEN MaxLen - 1 ELSE 1

VarLen == IF MaxLen > 2 THEN MaxLen - 2 ELSE 1

Scores == 0..ScoreSteps

IsSpace(c) == c = " "

RECURSIVE LStrip(_)
LStrip(s) == IF s # <<>> /\ IsSpace(Head(s)) THEN LStrip(Tail(s)) ELSE s

RECURSIVE RStrip(_)
RStrip(s) ==
  IF s # <<>> /\ IsSpace(s[Len(s)]) THEN RStrip(SubSeq(s, 1, Len(s) - 1)) ELSE s

\* str.strip()
Strip(s) == RStrip(LStrip(s))

\* str(n) of a one-digit int
Decimal(n) == <<CHOOSE c \in {"0", "1", "2", "3", "4", "5", "6", "7", "8", "9"} :
                  c = ToString(n)>>

\* expected_answer: Any.  A str carries its text, an int its number.
StrValue(s) == [isstr |-> TRUE, text |-> s, num |-> 0]
IntValue(n) == [isstr |-> FALSE, text |-> <<>>, num |-> n]

\* str(expected_answer)
PyStr(v) == IF v.isstr THEN v.text ELSE Decimal(v.num)

\* ------------------------------------------------------------- models.py
\* Optional[List[str]]
NoVariations == [present |-> FALSE, items |-> <<>>]
Variations(l) == [present |-> TRUE, items |-> l]

\* Optional[str] holding a regular expression: an optional "^", literal
\* characters, an optional "$".
NoPattern == [present |-> FALSE, start |-> FALSE, lit |-> <<>>, end |-> FALSE]
Pattern(s, l, e) == [present |-> TRUE, start |-> s, lit |-> l, end |-> e]

\* The pattern as written.
PatternText(p) ==
  (IF p.start THEN <<"^">> ELSE <<>>) \o p.lit \o (IF p.end THEN <<"$">> ELSE <<>>)

\* class Evaluation(BaseModel): four fields, no validator.
Evaluation(type, expected_answer, acceptable_variations, regex_pattern) ==
  [type |-> type,
   expected_answer |-> expected_answer,
   acceptable_variations |-> acceptable_variations,
   regex_pattern |-> regex_pattern]

\* ------------------------------------------------------------- evaluators/core.py
\* What a strategy or the dispatcher hands back: a dict, or an exception.
Returned(score, passed) ==
  [raised |-> "", score |-> score, passed |-> passed, invoked |-> <<>>]
Raised(exc) ==
  [raised |-> exc, score |-> 0, passed |-> FALSE, invoked |-> <<>>]

\* exact_match_evaluator letting a full overlap score count as a pass.
exact_match_evaluator_scored(response, evaluation, rouge) ==
  LET response_clean == Strip(response)
      expected_answer == Strip(PyStr(evaluation.expected_answer))
      variations == IF evaluation.acceptable_variations.present
                    THEN evaluation.acceptable_variations.items ELSE <<>>
      passed0 == response_clean = expected_answer \/ rouge = ScoreSteps
      passed == IF ~passed0 /\ variations # <<>>
                THEN \E i \in 1..Len(variations) : response_clean = Strip(variations[i])
                ELSE passed0
  IN Returned(rouge, passed)

\* rouge is scorer.score(expected_answer, response_clean)["rougeL"].fmeasure
exact_match_evaluator(response, evaluation, rouge) ==
  LET response_clean == Strip(response)
      expected_answer == Strip(PyStr(evaluation.expected_answer))
      variations == IF evaluation.acceptable_variations.present
                    THEN evaluation.acceptable_variations.items ELSE <<>>
      passed0 == response_clean = expected_answer
      passed == IF ~passed0 /\ variations # <<>>
                THEN \E i \in 1..Len(variations) : response_clean = Strip(variations[i])
                ELSE passed0
  IN Returned(rouge, passed)

\* re.search(pattern, s): the pattern matches at some position of s.
re_search(p, s) ==
  \E i \in 0..Len(s) :
    /\ i + Len(p.lit) <= Len(s)
    /\ SubSeq(s, i + 1, i + Len(p.lit)) = p.lit
    /\ p.start => i = 0
    /\ p.end => i + Len(p.lit) = Len(s)

\* regex_match_evaluator searching the trimmed response.
regex_match_evaluator_trimmed(response, evaluation) ==
  IF ~evaluation.regex_pattern.present \/ PatternText(evaluation.regex_pattern) = <<>>
  THEN Raised("ValueError: Regex pattern not provided")
  ELSE LET is_match == re_search(evaluation.regex_pattern, Strip(response))
       IN Returned(IF is_match THEN ScoreSteps ELSE 0, is_match)

regex_match_evaluator(response, evaluation) ==
  IF ~evaluation.regex_pattern.present \/ PatternText(evaluation.regex_pattern) = <<>>
  THEN Raised("ValueError: Regex pattern not provided")
  ELSE LET is_match == re_search(evaluation.regex_pattern, response)
       IN Returned(IF is_match THEN ScoreSteps ELSE 0, is_match)

\* bertscore_evaluator with a pass threshold at one half.
bertscore_evaluator_threshold(response, evaluation, f1) ==
  IF ~evaluation.expected_answer.isstr
  THEN Raised("TypeError: expected_answer must be a string")
  ELSE Returned(f1, 2 * f1 >= ScoreSteps)

\* f1 is bert_scorer([response.strip()], [expected_answer.strip()])'s F1.
bertscore_evaluator(response, evaluation, f1) ==
  IF ~evaluation.expected_answer.isstr
  THEN Raised("TypeError: expected_answer must be a string")
  ELSE Returned(f1, TRUE)

\* The table keyed by "semantic_similarity" where the code has "bert_score".
eval_functions_renamed ==
  [t \in {"exact_match", "regex_match", "semantic_similarity"} |->
     CASE t = "exact_match" -> "exact_match_evaluator"
       [] t = "regex_match" -> "regex_match_evaluator"
       [] t = "semantic_similarity" -> "bertscore_evaluator"]

\* The dispatcher's table: evaluation type -> strategy.
eval_functions ==
  [t \in {"exact_match", "regex_match", "bert_score"} |->
     CASE t = "exact_match" -> "exact_match_evaluator"
       [] t = "regex_match" -> "regex_match_evaluator"
       [] t = "bert_score" -> "bertscore_evaluator"]

\* Calling the strategy of that name; ext is the external scorer's answer.
CallStrategy(name, response, evaluation, ext) ==
  CASE name = "exact_match_evaluator" -> exact_match_evaluator(response, evaluation, ext)
    [] name = "regex_match_evaluator" -> regex_match_evaluator(response, evaluation)
    [] name = "bertscore_evaluator" -> bertscore_evaluator(response, evaluation, ext)

\* evaluate_response; "invoked" lists the strategies it called.
evaluate_response(response, evaluation, ext) ==
  LET eval_type == evaluation.type IN
  IF eval_type \notin DOMAIN eval_functions
  THEN Raised("ValueError: Unknown evaluation type")
  ELSE LET r == CallStrategy(eval_functions[eval_type], response, evaluation, ext)
       IN [r EXCEPT !.invoked = <<eval_functions[eval_type]>>]

\* ------------------------------------------------------------- state
VARIABLES
  tests,        \* run_all: the loaded test definitions, in sorted file order
  idx,          \* run_all: position of the loop in test_files
  pc,           \* run_all: "generating", "scoring", "returned" or "raised"
  llm_result,   \* run_test: what _call_llm returned
  results,      \* run_all: the list of TestResult
  calls,        \* per trial so far: what the trial called
  error,        \* the exception that left run_all ("" none)
  response,     \* evaluate_response: its response argument
  evaluation,   \* evaluate_response: its evaluation argument
  ext_score,    \* the external scorer's answer during that call
  eval_result,  \* what evaluate_response handed back
  eval_pc,      \* "idle", "ready" or "done"
  agg_results,  \* generate_html_report: its results argument
  report,       \* generate_html_report: the context handed to the template
  report_pc     \* "idle", "collecting" or "rendered"

vars == <<tests, idx, pc, llm_result, results, calls, error,
          response, evaluation, ext_score, eval_result, eval_pc,
          agg_results, report, report_pc>>

batch_vars == <<tests, idx, pc, llm_result, results, calls, error>>
eval_vars == <<response, evaluation, ext_score, eval_result, eval_pc>>
agg_vars == <<agg_results, report, report_pc>>

\* Optional[str] error of _call_llm
NoError == [present |-> FALSE, msg |-> ""]
ErrorMsg(m) == [present |-> TRUE, msg |-> m]

\* Python truthiness of llm_result["error"]: None and "" are both false.
Truthy(e) == e.present /\ e.msg # ""

NoLlmResult ==
  [actual_output |-> <<>>, prompt_tokens |-> 0, completion_tokens |-> 0,
   execution_time_ms |-> 0, error |-> NoError]

NoEvalResult == Raised("")

NoReport ==
  [total_tests |-> 0, passed |-> 0, failed |-> 0, average_score |-> 0,
   execution_time |-> 0, summary_by_category |-> <<>>]

BatchIdle ==
  /\ tests = <<>> /\ idx = 1 /\ pc = "idle" /\ llm_result = NoLlmResult
  /\ results = <<>> /\ calls = <<>> /\ error = ""
EvalIdle ==
  /\ response = <<>> /\ evaluation = Evaluation("", StrValue(<<>>), NoVariations, NoPattern)
  /\ ext_score = 0 /\ eval_result = NoEvalResult /\ eval_pc = "idle"
AggIdle ==
  /\ agg_results = <<>> /\ report = NoReport /\ report_pc = "idle"

\* ------------------------------------------------------------- evaluate_response, called directly
\* The evaluation specifications a caller may construct.
ExpectedValues == {StrValue(s) : s \in Strs(ShortLen)} \cup {IntValue(7)}
VariationLists ==
  {NoVariations} \cup {Variations(l) : l \in UNION {[1..k -> Strs(VarLen)] : k \in 0..MaxVars}}
Patterns ==
  {NoPattern} \cup {Pattern(s, l, e) : s \in BOOLEAN, l \in Strs(ShortLen), e \in BOOLEAN}

Evaluations ==
  {Evaluation("exact_match", x, v, NoPattern) : x \in ExpectedValues, v \in VariationLists}
  \cup {Evaluation("regex_match", StrValue(<<>>), NoVariations, p) : p \in Patterns}
  \cup {Evaluation("bert_score", x, NoVariations, NoPattern) : x \in ExpectedValues}
  \cup {Evaluation(t, StrValue(<<"7">>), NoVariations, Pattern(FALSE, <<"7">>, FALSE)) :
          t \in {"semantic_similarity", "fuzzy_match", ""}}

EvalInit ==
  /\ response \in Strs(MaxLen)
  /\ evaluation \in Evaluations
  /\ ext_score = 0
  /\ eval_result = NoEvalResult
  /\ eval_pc = "ready"
  /\ BatchIdle /\ AggIdle

\* One call evaluate_response(response, evaluation).
Evaluate ==
  /\ eval_pc = "ready"
  /\ \E ext \in Scores :
       /\ ext_score' = ext
       /\ eval_result' = evaluate_response(response, evaluation, ext)
  /\ eval_pc' = "done"
  /\ UNCHANGED <<response, evaluation>>
  /\ UNCHANGED batch_vars /\ UNCHANGED agg_vars

EvalNext == Evaluate

SpecEval == EvalInit /\ [][EvalNext]_vars

\* ------------------------------------------------------------- benchmark.py
\* The test definitions of the batch: one per strategy, well formed and not.
BatchEvaluations ==
  {Evaluation("exact_match", StrValue(<<"7">>), NoVariations, NoPattern),
   Evaluation("regex_match", StrValue(<<>>), NoVariations, Pattern(TRUE, <<"7">>, FALSE)),
   Evaluation("regex_match", StrValue(<<>>), NoVariations, NoPattern),
   Evaluation("bert_score", StrValue(<<"7">>), NoVariations, NoPattern),
   Evaluation("bert_score", IntValue(7), NoVariations, NoPattern),
   Evaluation("semantic_similarity", StrValue(<<"7">>), NoVariations, NoPattern)}

\* What the backend may do on one call: raise an exception whose str() is
\* msg, or answer with a text; elapsed_ms is the wall-clock time of the call.
BackendOutcomes ==
  {[raises |-> TRUE, msg |-> m, text |-> <<>>, elapsed_ms |-> t] :
     m \in {"", "timeout"}, t \in {2, 8}}
  \cup {[raises |-> FALSE, msg |-> "", text |-> x, elapsed_ms |-> t] :
     x \in {<<"7">>, <<" ">>}, t \in {2, 8}}

\* _call_llm: any exception of the backend call becomes the "error" entry.
call_llm(outcome) ==
  IF outcome.raises
  THEN [actual_output |-> <<>>, prompt_tokens |-> 0, completion_tokens |-> 0,
        execution_time_ms |-> outcome.elapsed_ms, error |-> ErrorMsg(outcome.msg)]
  ELSE [actual_output |-> outcome.text, prompt_tokens |-> 1,
        completion_tokens |-> Len(outcome.text),
        execution_time_ms |-> outcome.elapsed_ms, error |-> NoError]

\* run_test, lines 89-95: the verdict, or the exception of the dispatcher.
run_test_eval(llm, test_def, ext) ==
  IF Truthy(llm.error)
  THEN Returned(0, FALSE)
  ELSE evaluate_response(llm.actual_output, test_def.evaluation, ext)

\* Whether run_test called evaluate_response.
run_test_dispatches(llm) == ~Truthy(llm.error)

\* run_test, lines 97-107
TestResult(test_def, eval_res, llm) ==
  [test_id |-> test_def.test_id,
   passed |-> eval_res.passed,
   score |-> eval_res.score,
   actual_output |-> llm.actual_output,
   expected_output |-> test_def.evaluation.expected_answer,
   error_message |-> llm.error,
   execution_time_ms |-> llm.execution_time_ms,
   prompt_tokens |-> llm.prompt_tokens,
   completion_tokens |-> llm.completion_tokens]

BatchInit ==
  /\ \E n \in 0..MaxTests : \E evs \in [1..n -> BatchEvaluations] :
       tests = [i \in 1..n |-> [test_id |-> i, evaluation |-> evs[i]]]
  /\ idx = 1
  /\ pc = "generating"
  /\ llm_result = NoLlmResult
  /\ results = <<>>
  /\ calls = <<>>
  /\ error = ""
  /\ EvalIdle /\ AggIdle

\* run_test up to and including _call_llm, for the next test file.
CallLLM ==
  /\ pc = "generating"
  /\ idx <= Len(tests)
  /\ \E outcome \in BackendOutcomes :
       /\ llm_result' = call_llm(outcome)
       /\ calls' = Append(calls, [backend_raised |-> outcome.raises,
                                   backend_text |-> outcome.text,
                                   elapsed_ms |-> outcome.elapsed_ms,
                                   evaluate_response |-> 0,
                                   dispatched_on |-> <<>>,
                                   invoked |-> <<>>,
                                   verdict |-> [score |-> 0, passed |-> FALSE]])
  /\ pc' = "scoring"
  /\ UNCHANGED <<tests, idx, results, error>>
  /\ UNCHANGED eval_vars /\ UNCHANGED agg_vars

\* The rest of run_test and the loop's append.  An exception of the
\* dispatcher is caught nowhere: it leaves run_test and the loop.
Score ==
  /\ pc = "scoring"
  /\ \E ext \in Scores :
       LET test_def == tests[idx]
           eval_res == run_test_eval(llm_result, test_def, ext)
           called == [calls[idx] EXCEPT
                        !.evaluate_response =
                           IF run_test_dispatches(llm_result) THEN 1 ELSE 0,
                        !.dispatched_on =
                           IF run_test_dispatches(llm_result)
                           THEN llm_result.actual_output ELSE <<>>,
                        !.invoked = eval_res.invoked,
                        !.verdict = [score |-> eval_res.score,
                                     passed |-> eval_res.passed]]
       IN /\ calls' = [calls EXCEPT ![idx] = called]
          /\ IF eval_res.raised # ""
             THEN /\ pc' = "raised"
                  /\ error' = eval_res.raised
                  /\ UNCHANGED <<results, idx>>
             ELSE /\ results' = Append(results, TestResult(test_def, eval_res, llm_result))
                  /\ idx' = idx + 1
                  /\ pc' = "generating"
                  /\ UNCHANGED error
  /\ UNCHANGED <<tests, llm_result>>
  /\ UNCHANGED eval_vars /\ UNCHANGED agg_vars

\* The loop is over: run_all returns results.
Return ==
  /\ pc = "generating"
  /\ idx > Len(tests)
  /\ pc' = "returned"
  /\ UNCHANGED <<tests, idx, llm_result, results, calls, error>>
  /\ UNCHANGED eval_vars /\ UNCHANGED agg_vars

Next == CallLLM \/ Score \/ Return

Spec == BatchInit /\ [][Next]_vars

\* ------------------------------------------------------------- reporters.py
\* r["score"]: a float or None
NoScore == [isnone |-> TRUE, val |-> 0]
ScoreOf(v) == [isnone |-> FALSE, val |-> v]

Categories == {"math", "lang"}

\* One entry of generate_html_report's results: List[Dict[str, Any]].
ResultDicts ==
  [passed : BOOLEAN,
   score : {NoScore} \cup {ScoreOf(v) : v \in Scores},
   category : Categories,
   execution_time_ms : {250}]

RECURSIVE GCD(_, _)
GCD(a, b) == IF b = 0 THEN a ELSE GCD(b, a % b)

\* The float n/d, kept exact (d > 0).
Ratio(n, d) == IF n = 0 THEN [num |-> 0, den |-> 1]
               ELSE [num |-> n \div GCD(n, d), den |-> d \div GCD(n, d)]

\* f"{x:.2f}": x in hundredths, a tie of the exact value rounded to even.
Format2(x) ==
  LET q == (100 * x.num) \div x.den
      rem == (100 * x.num) % x.den
  IN IF 2 * rem > x.den THEN q + 1
     ELSE IF 2 * rem < x.den THEN q
     ELSE IF q % 2 = 0 THEN q ELSE q + 1

\* sum(1 for r in rs if r["passed"])
RECURSIVE count_passed(_)
count_passed(rs) ==
  IF rs = <<>> THEN 0
  ELSE (IF Head(rs).passed THEN 1 ELSE 0) + count_passed(Tail(rs))

\* A sum that stops at the first None score.
RECURSIVE sum_scores_until_none(_)
sum_scores_until_none(rs) ==
  IF rs = <<>> \/ Head(rs).score.isnone THEN 0
  ELSE Head(rs).score.val + sum_scores_until_none(Tail(rs))

\* sum(r["score"] for r in rs if r["score"] is not None), in score units
RECURSIVE sum_scores(_)
sum_scores(rs) ==
  IF rs = <<>> THEN 0
  ELSE (IF Head(rs).score.isnone THEN 0 ELSE Head(rs).score.val) + sum_scores(Tail(rs))

\* sum(r["execution_time_ms"] for r in rs)
RECURSIVE sum_time_ms(_)
sum_time_ms(rs) ==
  IF rs = <<>> THEN 0 ELSE Head(rs).execution_time_ms + sum_time_ms(Tail(rs))

\* results_by_category: the results of each category met, in input order.
results_by_category(rs) ==
  [c \in {rs[i].category : i \in 1..Len(rs)} |->
     SelectSeq(rs, LAMBDA r : r.category = c)]

\* A category entry counting as failed only the results with a score.
category_summary_scored_failures(cat_results) ==
  LET cat_total == Len(cat_results)
      cat_passed == count_passed(cat_results)
  IN [score |-> IF cat_total > 0
                THEN Ratio(sum_scores(cat_results), ScoreSteps * cat_total)
                ELSE Ratio(0, 1),
      tests_run |-> cat_total,
      passed |-> cat_passed,
      failed |-> Len(SelectSeq(cat_results, LAMBDA r : ~r.passed /\ ~r.score.isnone))]

\* One entry of summary_by_category.
category_summary(cat_results) ==
  LET cat_total == Len(cat_results)
      cat_passed == count_passed(cat_results)
  IN [score |-> IF cat_total > 0
                THEN Ratio(sum_scores(cat_results), ScoreSteps * cat_total)
                ELSE Ratio(0, 1),
      tests_run |-> cat_total,
      passed |-> cat_passed,
      failed |-> cat_total - cat_passed]

\* generate_html_report up to the template: the summary (average_score and
\* execution_time formatted to two decimals) and summary_by_category.
generate_html_report(rs) ==
  LET total_tests == Len(rs)
      passed_tests == count_passed(rs)
      failed_tests == total_tests - passed_tests
      average_score == IF total_tests > 0
                       THEN Ratio(sum_scores(rs), ScoreSteps * total_tests)
                       ELSE Ratio(0, 1)
      total_time_s == Ratio(sum_time_ms(rs), 1000)
      by_category == results_by_category(rs)
  IN [total_tests |-> total_tests,
      passed |-> passed_tests,
      failed |-> failed_tests,
      average_score |-> Format2(average_score),
      execution_time |-> Format2(total_time_s),
      summary_by_category |->
        [c \in DOMAIN by_category |-> category_summary(by_category[c])]]

AggInit ==
  /\ agg_results = <<>>
  /\ report = NoReport
  /\ report_pc = "collecting"
  /\ BatchIdle /\ EvalIdle

\* The caller adds one result to the list it will report on.
Collect ==
  /\ report_pc = "collecting"
  /\ Len(agg_results) < MaxResults
  /\ \E r \in ResultDicts : agg_results' = Append(agg_results, r)
  /\ UNCHANGED <<report, report_pc>>
  /\ UNCHANGED batch_vars /\ UNCHANGED eval_vars

\* generate_html_report(agg_results, output_path)
GenerateReport ==
  /\ report_pc = "collecting"
  /\ report' = generate_html_report(agg_results)
  /\ report_pc' = "rendered"
  /\ UNCHANGED agg_results
  /\ UNCHANGED batch_vars /\ UNCHANGED eval_vars

AggNext == Collect \/ GenerateReport

SpecAgg == AggInit /\ [][AggNext]_vars

\* ------------------------------------------------------------- claims on the strategies
\* t is s without its leading and trailing spaces.
IsTrimOf(t, s) ==
  \E i \in 0..Len(s) : \E j \in 0..(Len(s) - i) :
    /\ \A k \in 1..i : s[k] = " "
    /\ \A k \in (Len(s) - j + 1)..Len(s) : s[k] = " "
    /\ t = SubSeq(s, i + 1, Len(s) - j)
    /\ t = <<>> \/ (t[1] # " " /\ t[Len(t)] # " ")

SameTrimmed(a, b) ==
  \E i \in 0..Len(a) : \E j \in i..Len(a) :
    IsTrimOf(SubSeq(a, i + 1, j), a) /\ IsTrimOf(SubSeq(a, i + 1, j), b)

\* The pattern matches a substring of s: s = pre \o lit \o post, with pre
\* empty under "^" and post empty under "$".
MatchesSomewhere(p, s) ==
  \E i \in 0..Len(s) : \E j \in (i + 1)..(Len(s) + 1) :
   LET pre == SubSeq(s, 1, i)
       post == SubSeq(s, j, Len(s))
   IN
    /\ s = pre \o p.lit \o post
    /\ p.start => pre = <<>>
    /\ p.end => post = <<>>

ExactDone == eval_pc = "done" /\ evaluation.type = "exact_match"
RegexDone ==
  /\ eval_pc = "done" /\ evaluation.type = "regex_match"
  /\ evaluation.regex_pattern.present
  /\ PatternText(evaluation.regex_pattern) # <<>>
BertDone ==
  eval_pc = "done" /\ evaluation.type = "bert_score" /\ evaluation.expected_answer.isstr

\* C8: exact_match returns passed = true if and only if the trimmed candidate
\* is character-identical to the trimmed reference or to at least one trimmed
\* variation, whatever the overlap score is.
C8_ExactMatchPassedIffIdentical ==
  ExactDone =>
    /\ eval_result.raised = ""
    /\ eval_result.passed <=>
         \/ SameTrimmed(response, PyStr(evaluation.expected_answer))
         \/ \E i \in 1..Len(evaluation.acceptable_variations.items) :
              SameTrimmed(response, evaluation.acceptable_variations.items[i])

\* C8 witness: a pass through a variation that matches only after trimming,
\* with an overlap score of 0.
C8_Witness ==
  /\ ExactDone /\ eval_result.passed /\ eval_result.score = 0
  /\ ~SameTrimmed(response, PyStr(evaluation.expected_answer))
  /\ \A i \in 1..Len(evaluation.acceptable_variations.items) :
       response # evaluation.acceptable_variations.items[i]

\* C9: with a pattern, regex_match returns passed = true iff the pattern
\* matches somewhere in the untrimmed candidate, and its score is 1.0 when
\* passed and 0.0 when not.
C9_RegexBinaryOnUntrimmed ==
  RegexDone =>
    /\ eval_result.raised = ""
    /\ eval_result.passed <=> MatchesSomewhere(evaluation.regex_pattern, response)
    /\ eval_result.score = IF eval_result.passed THEN ScoreSteps ELSE 0

\* C9 witness: no match in the candidate as given, though its trimmed text
\* would match.
C9_Witness ==
  /\ RegexDone /\ ~eval_result.passed /\ eval_result.score = 0
  /\ MatchesSomewhere(evaluation.regex_pattern, Strip(response))

\* C10: with a string reference the semantic-similarity strategy returns
\* passed = true and the external similarity value as its score, whatever
\* that value is.
C10_BertAlwaysPasses ==
  BertDone =>
    /\ eval_result.raised = ""
    /\ eval_result.passed
    /\ eval_result.score = ext_score

\* C10 witness: the external value is 0.0 and the verdict is still a pass.
C10_Witness == BertDone /\ ext_score = 0 /\ eval_result.passed /\ eval_result.score = 0

\* What the strategy named in the claim hands back, called on its own.
DirectResult(name) ==
  CASE name = "exact_match_evaluator" -> exact_match_evaluator(response, evaluation, ext_score)
    [] name = "regex_match_evaluator" -> regex_match_evaluator(response, evaluation)
    [] name = "bertscore_evaluator" -> bertscore_evaluator(response, evaluation, ext_score)

DispatchedTo(name) ==
  /\ eval_result.invoked = <<name>>
  /\ eval_result.raised = DirectResult(name).raised
  /\ eval_result.score = DirectResult(name).score
  /\ eval_result.passed = DirectResult(name).passed

Rejected ==
  /\ eval_result.raised = "ValueError: Unknown evaluation type"
  /\ eval_result.invoked = <<>>

\* C4 as stated: the closed set is {exact_match, regex_match,
\* semantic_similarity}; each of these kinds reaches exactly its strategy,
\* whose result comes back unmodified, and every other kind is rejected with
\* no strategy invoked.
C4_Original ==
  eval_pc = "done" =>
    CASE evaluation.type = "exact_match" -> DispatchedTo("exact_match_evaluator")
      [] evaluation.type = "regex_match" -> DispatchedTo("regex_match_evaluator")
      [] evaluation.type = "semantic_similarity" -> DispatchedTo("bertscore_evaluator")
      [] OTHER -> Rejected

\* C4 amended: the closed set is {exact_match, regex_match, bert_score}; each
\* of these kinds reaches exactly its strategy, whose result (or exception)
\* comes back unmodified, and every other kind, "semantic_similarity"
\* included, is rejected with no strategy invoked.
C4_DispatchClosedSet ==
  eval_pc = "done" =>
    CASE evaluation.type = "exact_match" -> DispatchedTo("exact_match_evaluator")
      [] evaluation.type = "regex_match" -> DispatchedTo("regex_match_evaluator")
      [] evaluation.type = "bert_score" -> DispatchedTo("bertscore_evaluator")
      [] OTHER -> Rejected

\* C4 witness: the kind "semantic_similarity" was dispatched and rejected.
C4_Witness ==
  /\ eval_pc = "done" /\ evaluation.type = "semantic_similarity" /\ Rejected

\* ------------------------------------------------------------- claims on the trial runner
\* The trials that have been through run_test's scoring.
ScoredTrials == IF pc = "scoring" THEN 1..(Len(calls) - 1) ELSE 1..Len(calls)

\* A structurally wrong specification: a kind outside the closed set,
\* regex_match without a pattern, semantic similarity with a non-string
\* reference.
Structural(ev) ==
  \/ ev.type \notin {"exact_match", "regex_match", "bert_score"}
  \/ ev.type = "regex_match"
       /\ (~ev.regex_pattern.present \/ PatternText(ev.regex_pattern) = <<>>)
  \/ ev.type = "bert_score" /\ ~ev.expected_answer.isstr

\* C1: every trial whose backend call raised, whatever the message, ends
\* with score 0.0, passed = false and a non-empty failure reason, and never
\* invoked evaluate_response.
C1_BackendErrorShortCircuits ==
  /\ \A i \in ScoredTrials :
       calls[i].backend_raised => calls[i].evaluate_response = 0
  /\ \A i \in 1..Len(results) :
       calls[i].backend_raised =>
         /\ results[i].score = 0
         /\ ~results[i].passed
         /\ results[i].error_message.present
         /\ results[i].error_message.msg # ""

\* C2: a structural error aborts only its trial: the batch never ends in an
\* exception, it returns one result per test definition, and the offending
\* trial's result carries the error as its failure reason.
C2_StructuralErrorAbortsOnlyItsTrial ==
  /\ pc # "raised"
  /\ pc = "returned" =>
       /\ Len(results) = Len(tests)
       /\ \A i \in 1..Len(results) :
            (Structural(tests[i].evaluation) /\ ~calls[i].backend_raised)
              => Truthy(results[i].error_message)

\* C3: a structurally wrong specification is rejected when constructed, so
\* none reaches the dispatcher or a strategy and no scoring call fails
\* because of one.
C3_MalformedNeverReachesScoring ==
  /\ \A i \in ScoredTrials :
       calls[i].evaluate_response > 0 => ~Structural(tests[i].evaluation)
  /\ error = ""

\* Every trial that left Generating is Scored, once: it has its one result.
C11_ScoredExactlyOnce ==
  /\ Len(results) = Cardinality(ScoredTrials)
  /\ \A i \in 1..Len(results) : results[i].test_id = tests[i].test_id

\* A result carries a failure reason exactly when its backend call raised.
C11_ReasonIffBackendRaised ==
  \A i \in 1..Len(results) :
    Truthy(results[i].error_message) <=> calls[i].backend_raised

\* After a backend call that succeeded, the dispatcher ran once, on the text
\* the backend gave, and its verdict is the result's, with no failure reason.
C11_SuccessIsDispatched ==
  \A i \in 1..Len(results) :
    ~calls[i].backend_raised =>
      /\ calls[i].evaluate_response = 1
      /\ calls[i].dispatched_on = calls[i].backend_text
      /\ results[i].actual_output = calls[i].backend_text
      /\ results[i].score = calls[i].verdict.score
      /\ results[i].passed = calls[i].verdict.passed
      /\ ~results[i].error_message.present

\* The latency of the backend call is in the result, raised or not.
C11_LatencyRecorded ==
  \A i \in 1..Len(results) : results[i].execution_time_ms = calls[i].elapsed_ms

\* C11: a trial moves from Generating to Scored exactly once; its result has
\* a failure reason if and only if the backend call raised; after a backend
\* call that succeeded the dispatcher is invoked exactly once on the captured
\* text, its (score, passed) are the verdict and no failure reason is set,
\* even when passed is false; the backend latency is recorded either way.
C11_TrialLifecycle ==
  /\ C11_ScoredExactlyOnce
  /\ C11_ReasonIffBackendRaised
  /\ C11_SuccessIsDispatched
  /\ C11_LatencyRecorded

\* ------------------------------------------------------------- claims on the aggregation
Rendered == report_pc = "rendered"

InCategory(c) == {i \in 1..Len(agg_results) : agg_results[i].category = c}

\* C5: passed + failed = tests_run in the overall summary and in every
\* category summary, the counts being those of the input; the empty input
\* gives tests_run = 0, mean score 0 and no category.
C5_CountsAddUp ==
  Rendered =>
    /\ report.total_tests = Len(agg_results)
    /\ report.passed = Cardinality({i \in 1..Len(agg_results) : agg_results[i].passed})
    /\ report.passed + report.failed = report.total_tests
    /\ DOMAIN report.summary_by_category =
         {agg_results[i].category : i \in 1..Len(agg_results)}
    /\ \A c \in DOMAIN report.summary_by_category :
         LET e == report.summary_by_category[c] IN
           /\ e.tests_run = Cardinality(InCategory(c))
           /\ e.passed = Cardinality({i \in InCategory(c) : agg_results[i].passed})
           /\ e.passed + e.failed = e.tests_run
    /\ agg_results = <<>> =>
         /\ report.total_tests = 0
         /\ report.average_score = 0
         /\ DOMAIN report.summary_by_category = {}

\* C5 witness: a report over passed and failed results, one of them without
\* a score, in two categories.
C5_Witness ==
  /\ Rendered
  /\ Cardinality(DOMAIN report.summary_by_category) = 2
  /\ report.passed > 0 /\ report.failed > 0
  /\ \E i \in 1..Len(agg_results) :
       agg_results[i].score.isnone /\ ~agg_results[i].passed

\* The mean of the defined scores among the results at the indices of S.
RECURSIVE SumVals(_)
SumVals(S) ==
  IF S = {} THEN 0
  ELSE LET i == CHOOSE j \in S : TRUE
       IN agg_results[i].score.val + SumVals(S \ {i})

Defined(S) == {i \in S : ~agg_results[i].score.isnone}

MeanOfDefined(S) == Ratio(SumVals(Defined(S)), ScoreSteps * Cardinality(Defined(S)))

\* C6: the mean score of every summary is the arithmetic mean of exactly the
\* defined scores of that summary's trials: a trial without a score adds
\* nothing to the sum and nothing to the divisor.
C6_MeanOverDefinedScores ==
  Rendered =>
    /\ Defined(1..Len(agg_results)) # {} =>
         report.average_score = Format2(MeanOfDefined(1..Len(agg_results)))
    /\ \A c \in DOMAIN report.summary_by_category :
         Defined(InCategory(c)) # {} =>
           report.summary_by_category[c].score = MeanOfDefined(InCategory(c))

\* The permutations of 1..n.
Perms(n) == {p \in [1..n -> 1..n] : \A i, j \in 1..n : p[i] = p[j] => i = j}

PermsUpTo == [n \in 0..MaxResults |-> Perms(n)]

====
